---- MODULE Spec2Model ----
(***************************************************************************)
(* A model of goleft's indexcov (src/indexcov/indexcov.go).                *)
(*                                                                         *)
(* Two state machines share the variables below.                           *)
(*   Spec      Main's pipeline: run() over the references of the header,   *)
(*             one step per phase of the loop body, followed by            *)
(*             writeIndex() (pca, the ped file, the index page).           *)
(*   SpecNorm  Index.NormalizedDepth with its lazy Index.init on one       *)
(*             sample's reference tile vectors.                            *)
(*                                                                         *)
(* float32/float64 depths are modelled in fixed point, in hundredths:      *)
(* the depth 1.15 is the integer 115, MaxCN = 6 is 600, the CN sentinel    *)
(* -1 is -100.  The depths the model draws lie on that grid and none of    *)
(* them lands on a rounding boundary of the formulas below, so the exact   *)
(* integer arithmetic written here agrees with the float arithmetic of the *)
(* code on them.                                                           *)
(***************************************************************************)
EXTENDS Integers, Sequences, FiniteSets, TLC

\* ------------------------------------------------------------ constants
slots == 70
MaxCN == 6
Ploidy == 2
TileWidth == 16384

\* slotsMid = 2/3, kept as a fraction.
slotsMidNum == 2
slotsMidDen == 3

\* cli.Sex, the default of the command line.
cliSex == <<"X", "Y">>

\* names: the sample names, one per index given on the command line.
names == <<"s1", "s2">>
Samples == 1..Len(names)

\* ------------------------------------------------------------ inputs
\* The longest depth vector a sample has on one reference.
MaxLen == 3
\* Normalized depths (hundredths) as NormalizedDepth returns them, one tape
\* per sample: 0, 1.2, 0.5, 1, 1.15 and 0.85, 6 (the clamp), 0.01, 1.15, 2.
DepthTapes == << <<0, 120, 50, 100, 115>>, <<85, 600, 1, 115, 200>> >>
\* The depth vectors of the samples on one reference: sample 1 has the
\* first l1 depths of its tape, every other sample one fewer, as many, or
\* MaxLen of its own tape.
DepthTuples ==
  {[k \in Samples |->
      SubSeq(DepthTapes[k], 1, IF k = 1 \/ sh = 1 THEN l1
                                ELSE IF sh = 2 THEN MaxLen
                                ELSE IF l1 = 0 THEN 0 ELSE l1 - 1)] :
     l1 \in 0..MaxLen, sh \in 0..2}
\* The reference names of the header, in header order.
RefLists == {<<"X", "Y", "1">>, <<"1", "X", "2">>, <<"2", "1">>}
\* One sample's reference tile vectors: at most MaxRefs references of at
\* most MaxTiles non-decreasing virtual offsets each.
MaxRefs == 3
MaxTiles == 3
Offsets == {0, 1, 8}
TileVecs ==
  {t \in UNION {[1..n -> Offsets] : n \in 0..MaxTiles} :
     \A i \in 1..(Len(t) - 1) : t[i] <= t[i + 1]}
\* What a float32 -> uint8 conversion of a value above 255 yields is left to
\* the implementation by the language: the low eight bits, or saturation.
Builds == {"wrap", "saturate"}

VARIABLES
  build,      \* the conversion behaviour of this build
  refs,       \* run: refs, the references of the header
  ir,         \* run: index of the current reference (1-based)
  pc,         \* position in Main / run / writeIndex
  depths,     \* run: depths[k], the current reference's depth vectors
  longest,    \* run: longest
  longesti,   \* run: longesti (1-based)
  counts,     \* run: counts[k], the 70-slot histograms
  sexes,      \* run: sexes, chromosome name -> per-sample CN
  pca8,       \* run: pca8[k], the quantized matrix rows
  offs,       \* run: offs[k], the bin counters
  bed,        \* the rows written to <prefix>-indexcov.bed.gz
  roc,        \* the lines written to <prefix>-indexcov.roc
  seen,       \* history: per visited reference, its name and depth vectors
  pcs,        \* writeIndex: columns of the projection, 0 for nil
  pcaPlots,   \* writeIndex: number of PCA plots, 0 for nil
  warnings,   \* lines logged by pca
  pedHdr,     \* the header columns of the ped file after "phenotype"
  ped,        \* the rows of the ped file
  xrefs,      \* Index.refs of one sample
  medianSizePerTile, \* Index.medianSizePerTile
  ndepths,    \* the last result of NormalizedDepth
  npc         \* outcome of the last NormalizedDepth call

runVars == <<build, refs, ir, pc, depths, longest, longesti, counts, sexes,
             pca8, offs, bed, roc, seen>>
wiVars == <<pcs, pcaPlots, warnings, pedHdr, ped>>
normVars == <<xrefs, medianSizePerTile, ndepths, npc>>
vars == <<runVars, wiVars, normVars>>

\* ------------------------------------------------------------ helpers
Min(a, b) == IF a < b THEN a ELSE b

\* Go's int(x) of a quotient num/den with den > 0: truncation toward zero.
Trunc(num, den) == IF num >= 0 THEN num \div den ELSE -((-num) \div den)

\* fmt "%.2f" of the non-negative quotient num/den: the value in hundredths,
\* rounded to nearest, ties to even; NaN for 0/0 and +Inf for x/0.
Fmt2(num, den) ==
  IF den = 0 THEN [nan |-> num = 0, inf |-> num # 0, v |-> 0]
  ELSE LET q == (100 * num) \div den
           r == (100 * num) % den
       IN [nan |-> FALSE, inf |-> FALSE,
           v |-> IF 2 * r > den \/ (2 * r = den /\ q % 2 = 1) THEN q + 1 ELSE q]

\* A zero that leaves the counts of the previous reference in place.
zeroKeep(ints) == ints

\* zero(ints)
zero(ints) == [i \in DOMAIN ints |-> 0]

\* tint(f), f given as the numerator of a fraction over 100 * slotsMidDen.
tint(f) ==
  LET v == f \div (100 * slotsMidDen)
  IN IF v < slots THEN v ELSE slots - 1

\* CountsAtDepth(depths, counts): counts[tint(d*(slots*slotsMid)+0.5)]++
RECURSIVE CountsAtDepth(_, _)
CountsAtDepth(ds, cnts) ==
  IF ds = <<>> THEN cnts
  ELSE LET f == Head(ds) * slots * slotsMidNum + 50 * slotsMidDen
           s == tint(f) + 1
       IN CountsAtDepth(Tail(ds), [cnts EXCEPT ![s] = @ + 1])

\* The loop of CountsROC that fills totals from the last slot down:
\* acc holds totals[i+1..].
RECURSIVE totalsFrom(_, _, _)
totalsFrom(cnts, i, acc) ==
  IF Len(acc) = Len(cnts) THEN acc
  ELSE totalsFrom(cnts, i - 1,
                  <<cnts[i] + (IF acc = <<>> THEN 0 ELSE acc[1])>> \o acc)

\* The last loop of CountsROC: roc[i] = float32(totals[i]) / max with
\* max = float32(totals[0]), kept as the pair of operands; 0/0 is NaN.
rocOf(totals) ==
  [i \in 1..Len(totals) |-> [num |-> totals[i], den |-> totals[1]]]

\* CountsROC(counts)
CountsROC(cnts) == rocOf(totalsFrom(cnts, Len(cnts), <<>>))

\* The loop of getROCs from sample i on.
RECURSIVE getROCsFrom(_, _)
getROCsFrom(cs, i) ==
  IF i > Len(cs) THEN <<>>
  ELSE <<CountsROC(cs[i])>> \o getROCsFrom(cs, i + 1)

\* getROCs(counts)
getROCs(cs) == getROCsFrom(cs, 1)

\* ------------------------------------------------------------ BinCounter
counter0 == [out |-> 0, low |-> 0, hi |-> 0, in |-> 0]

\* The loop of counter.count over the observed depths.
RECURSIVE countObserved(_, _)
countObserved(c, ds) ==
  IF ds = <<>> THEN c
  ELSE LET d == Head(ds)
           c1 == IF d < 85 \/ d > 115
                 THEN [c EXCEPT !.out = @ + 1,
                                !.hi = IF d > 115 THEN @ + 1 ELSE @,
                                !.low = IF ~(d > 115) /\ d < 15 THEN @ + 1 ELSE @]
                 ELSE [c EXCEPT !.in = @ + 1]
       IN countObserved(c1, Tail(ds))

\* A count that forgets to add the padded tail to low.
countNoLowPad(c, ds, n) ==
  LET c1 == countObserved(c, ds)
  IN [c1 EXCEPT !.out = @ + (n - Len(ds))]

\* counter.count(depths, n)
count(c, ds, n) ==
  LET c1 == countObserved(c, ds)
  IN [c1 EXCEPT !.out = @ + (n - Len(ds)), !.low = @ + (n - Len(ds))]

\* ------------------------------------------------------------ matrix rows
\* uint8(v) of a non-negative float with integer part v.
toUint8(v, b) ==
  IF v < 256 THEN v ELSE IF b = "wrap" THEN v % 256 ELSE 255

\* uint8(65535/MaxCN*d + 0.5)
pcaCell(d, b) == toUint8((65535 * d + 50 * MaxCN) \div (100 * MaxCN), b)

\* An extension that appends the observed cells and no padding.
extendRowNoPad(row, ds, n, b) ==
  row \o [i \in 1..Len(ds) |-> pcaCell(ds[i], b)]

\* The two loops of run that extend pca8[k]: the quantized depths, then
\* zeros up to longest.
extendRow(row, ds, n, b) ==
  row \o [i \in 1..Len(ds) |-> pcaCell(ds[i], b)]
      \o [i \in 1..(n - Len(ds)) |-> 0]

\* ------------------------------------------------------------ CopyNumber
RECURSIVE insertSorted(_, _)
insertSorted(x, s) ==
  IF s = <<>> THEN <<x>>
  ELSE IF x < Head(s) THEN <<x>> \o s
  ELSE <<Head(s)>> \o insertSorted(x, Tail(s))

\* sort.Slice(tmp, func(i, j) bool { return tmp[i] < tmp[j] })
RECURSIVE sortAsc(_)
sortAsc(s) == IF s = <<>> THEN <<>> ELSE insertSorted(Head(s), sortAsc(Tail(s)))

\* tmp of GetCN: the entries that are not exactly 0.
nonZero(d) == SelectSeq(d, LAMBDA x : x # 0)

\* One sample's value in GetCN; -100 is the sentinel -1.
cnOf(d) ==
  LET tmp == nonZero(d)
  IN IF Len(tmp) > 0
     THEN Ploidy * sortAsc(tmp)[(Len(tmp) \div 2) + 1]
     ELSE -100

\* A GetCN that skips the sort and sorts nothing.
GetCNUnsorted(ds) ==
  [meds |-> [k \in DOMAIN ds |->
               LET tmp == nonZero(ds[k])
               IN IF Len(tmp) > 0 THEN Ploidy * tmp[(Len(tmp) \div 2) + 1]
                  ELSE -100],
   depths |-> ds]

\* GetCN(depths): the medians, and the caller's slices after the call
\* (GetCN filters into a fresh tmp and sorts that, so they are as before).
GetCN(ds) ==
  [meds |-> [k \in DOMAIN ds |-> cnOf(ds[k])], depths |-> ds]

\* ------------------------------------------------------------ writers
\* depthsFor(depths, i), i 0-based: "0" for a sample shorter than i, else
\* the depth (%.3g of a value of at most three significant digits).
depthsFor(ds, i) ==
  [j \in DOMAIN ds |-> IF i >= Len(ds[j]) THEN 0 ELSE ds[j][i + 1]]

\* One row of a ROC block, i 0-based.
rocRow(rocs, chrom, i) ==
  [kind |-> "row", chrom |-> chrom, slot |-> i,
   cov |-> Fmt2(i * slotsMidDen, slots * slotsMidNum),
   vals |-> [k \in DOMAIN names |-> Fmt2(rocs[k][i + 1].num, rocs[k][i + 1].den)]]

\* The lines writeROCs prints for rocs: the header, then n rows.
rocLines(rocs, chrom, n) ==
  <<[kind |-> "header", chrom |-> "#chrom", slot |-> -1,
     cov |-> Fmt2(0, 1), vals |-> names]>>
  \o [i \in 1..n |-> rocRow(rocs, chrom, i - 1)]

\* A writer that loses the last slot.
writeROCsShort(cs, chrom) == rocLines(getROCs(cs), chrom, slots - 1)

\* writeROCs(counts, names, chrom, prefix, fh): the lines written to fh.
writeROCs(cs, chrom) == rocLines(getROCs(cs), chrom, slots)

\* ------------------------------------------------------------ run
\* longest, longesti of the loop over idxs: the first strictly longer wins.
longestOf(ds) ==
  LET m == CHOOSE n \in {Len(ds[k]) : k \in DOMAIN ds} :
             \A k \in DOMAIN ds : Len(ds[k]) <= n
  IN [longest |-> m,
      longesti |-> IF m = 0 THEN 1
                   ELSE CHOOSE k \in DOMAIN ds :
                          /\ Len(ds[k]) = m
                          /\ \A j \in DOMAIN ds : Len(ds[j]) = m => k <= j]

isSex(chrom) == \E i \in DOMAIN cliSex : cliSex[i] = chrom

\* The state Main hands to run: nothing allocated, nothing written.
RunInit ==
  /\ build \in Builds
  /\ refs \in RefLists
  /\ ir = 1
  /\ pc = "depths"
  /\ depths = [k \in Samples |-> <<>>]
  /\ longest = 0
  /\ longesti = 1
  /\ counts = [k \in Samples |-> <<>>]
  /\ sexes = [c \in {} |-> <<>>]
  /\ pca8 = [k \in Samples |-> <<>>]
  /\ offs = [k \in Samples |-> counter0]
  /\ bed = <<>>
  /\ roc = <<>>
  /\ seen = <<>>

\* run, first loop over idxs: depths, longest, the histograms.
RunDepths ==
  /\ pc = "depths"
  /\ \E ds \in DepthTuples :
       /\ depths' = ds
       /\ longest' = longestOf(ds).longest
       /\ longesti' = longestOf(ds).longesti
       /\ counts' = [k \in Samples |->
                       CountsAtDepth(ds[k],
                         IF ir = 1 THEN [i \in 1..slots |-> 0]
                         ELSE zero(counts[k]))]
       /\ seen' = Append(seen, [chrom |-> refs[ir], depths |-> ds])
  /\ pca8' = IF ir = 1 THEN [k \in Samples |-> <<>>] ELSE pca8
  /\ offs' = IF ir = 1 THEN [k \in Samples |-> counter0] ELSE offs
  /\ pc' = "sex"
  /\ UNCHANGED <<build, refs, ir, sexes, bed, roc>>
  /\ UNCHANGED <<wiVars, normVars>>

\* run: the copy number of a sex chromosome, or else the matrix rows and
\* the bin counters.
RunSexOrMatrix ==
  /\ pc = "sex"
  /\ LET chrom == refs[ir]
     IN IF isSex(chrom)
        THEN /\ IF Len(depths[longesti]) > 0
                THEN /\ sexes' = [c \in DOMAIN sexes \cup {chrom} |->
                                    IF c = chrom THEN GetCN(depths).meds
                                    ELSE sexes[c]]
                     /\ depths' = GetCN(depths).depths
                ELSE UNCHANGED <<sexes, depths>>
             /\ UNCHANGED <<pca8, offs>>
        ELSE /\ pca8' = [k \in Samples |->
                           extendRow(pca8[k], depths[k], longest, build)]
             /\ offs' = [k \in Samples |-> count(offs[k], depths[k], longest)]
             /\ UNCHANGED <<sexes, depths>>
  /\ pc' = "emit"
  /\ UNCHANGED <<build, refs, ir, longest, longesti, counts, bed, roc, seen>>
  /\ UNCHANGED <<wiVars, normVars>>

\* run: the bed rows of this reference, then its ROC block if any sample
\* has a depth on it; then the next reference, or back to Main.
RunEmit ==
  /\ pc = "emit"
  /\ LET chrom == refs[ir]
         n == Len(depths[longesti])
     IN /\ bed' = bed \o [i \in 1..n |->
                      [chrom |-> chrom, start |-> (i - 1) * 16384,
                       end |-> i * 16384, vals |-> depthsFor(depths, i - 1)]]
        /\ roc' = IF n > 0 THEN roc \o writeROCs(counts, chrom) ELSE roc
  /\ ir' = ir + 1
  /\ pc' = IF ir + 1 > Len(refs) THEN "writeIndex" ELSE "depths"
  /\ UNCHANGED <<build, refs, depths, longest, longesti, counts, sexes,
                 pca8, offs, seen>>
  /\ UNCHANGED <<wiVars, normVars>>

\* ------------------------------------------------------------ writeIndex
\* len(vars) in pca: the number of principal components gonum's
\* stat.PC reports for an n x p matrix, one per singular value.
numComponents(rows) == Min(Len(rows), Len(rows[1]))

\* pca(pca8, samples): the columns of the projection and the number of
\* plots, both 0 for the nil results, and the lines logged.
pca(rows) ==
  LET nv == numComponents(rows)
      k == IF nv < 5 THEN nv ELSE 5
  IN IF nv < 5 /\ k < 3
     THEN [pcs |-> 0, plots |-> 0,
           log |-> <<"got principal components", "not plotting">>]
     ELSE [pcs |-> k, plots |-> 2,
           log |-> IF nv < 5 THEN <<"got principal components">> ELSE <<>>]

\* int(0.5 + cn) for a CN in hundredths.
inferredSex(cn) == Trunc(50 + cn, 100)

\* One row of the ped file, complete.
pedRow(i) ==
  [sample |-> names[i],
   sex |-> inferredSex(sexes[cliSex[1]][i]),
   cn |-> [j \in DOMAIN cliSex |-> sexes[cliSex[j]][i]],
   out |-> offs[i].out, low |-> offs[i].low, hi |-> offs[i].hi,
   in |-> offs[i].in, pout |-> Fmt2(offs[i].out, offs[i].in),
   pcCols |-> IF pcs # 0 THEN 5 ELSE 0,
   complete |-> TRUE]

\* writeIndex up to the call of pca: nothing to write without a sex
\* chromosome, exit(1) when a configured one was not found, else pca.  What
\* gonum does with a matrix of zero columns is not fixed by this code: it
\* panics or reports no component.
WriteIndexPca ==
  /\ pc = "writeIndex"
  /\ IF DOMAIN sexes = {}
     THEN /\ pc' = "done"
          /\ UNCHANGED <<pcs, pcaPlots, warnings>>
     ELSE IF \E j \in DOMAIN cliSex : cliSex[j] \notin DOMAIN sexes
     THEN /\ pc' = "exit1"
          /\ UNCHANGED <<pcs, pcaPlots, warnings>>
     ELSE \E libPanics \in (IF Len(pca8[1]) = 0 THEN BOOLEAN ELSE {FALSE}) :
            IF libPanics
            THEN /\ pc' = "panic"
                 /\ UNCHANGED <<pcs, pcaPlots, warnings>>
            ELSE /\ pcs' = pca(pca8).pcs
                 /\ pcaPlots' = pca(pca8).plots
                 /\ warnings' = warnings \o pca(pca8).log
                 /\ pc' = "ped"
  /\ UNCHANGED <<build, refs, ir, depths, longest, longesti, counts, sexes,
                 pca8, offs, bed, roc, seen, pedHdr, ped>>
  /\ UNCHANGED normVars

\* writeIndex: the ped file.  pcs.At(i, 3) and pcs.At(i, 4) are read for
\* every projection, so one of three or four columns panics in the first row,
\* after its first six fields were written.
WriteIndexPed ==
  /\ pc = "ped"
  /\ pedHdr' = [cn |-> [j \in DOMAIN cliSex |-> cliSex[j]],
                bins |-> <<"bins.out", "bins.lo", "bins.hi", "bins.in", "p.out">>,
                pcCols |-> IF pcs # 0 THEN 5 ELSE 0]
  /\ IF pcs # 0 /\ pcs < 5
     THEN /\ ped' = <<[pedRow(1) EXCEPT !.complete = FALSE]>>
          /\ sexes' = [c \in DOMAIN sexes \cup {"_inferred"} |->
                         IF c = "_inferred"
                         THEN [i \in Samples |->
                                 IF i = 1 THEN 100 * pedRow(1).sex ELSE 0]
                         ELSE sexes[c]]
          /\ pc' = "panic"
     ELSE /\ ped' = [i \in Samples |-> pedRow(i)]
          /\ sexes' = [c \in DOMAIN sexes \cup {"_inferred"} |->
                         IF c = "_inferred"
                         THEN [i \in Samples |-> 100 * pedRow(i).sex]
                         ELSE sexes[c]]
          /\ pc' = "charts"
  /\ UNCHANGED <<build, refs, ir, depths, longest, longesti, counts,
                 pca8, offs, bed, roc, seen, pcs, pcaPlots, warnings>>
  /\ UNCHANGED normVars

\* writeIndex: the sex plot and the index page, which reads pcaPlots[0],
\* pcaPlots[1] and *sexChart.
WriteIndexCharts ==
  /\ pc = "charts"
  /\ pc' = IF pcaPlots < 2 \/ ~(Len(cliSex) > 1) THEN "panic" ELSE "done"
  /\ UNCHANGED <<build, refs, ir, depths, longest, longesti, counts, sexes,
                 pca8, offs, bed, roc, seen>>
  /\ UNCHANGED <<wiVars, normVars>>

\* ------------------------------------------------------------ Spec
NormIdle ==
  /\ xrefs = <<>>
  /\ medianSizePerTile = 0
  /\ ndepths = <<>>
  /\ npc = "idle"

Init ==
  /\ RunInit
  /\ pcs = 0
  /\ pcaPlots = 0
  /\ warnings = <<>>
  /\ pedHdr = [cn |-> <<>>, bins |-> <<>>, pcCols |-> 0]
  /\ ped = <<>>
  /\ NormIdle

Next ==
  \/ RunDepths
  \/ RunSexOrMatrix
  \/ RunEmit
  \/ WriteIndexPca
  \/ WriteIndexPed
  \/ WriteIndexCharts

Spec == Init /\ [][Next]_vars

\* ------------------------------------------------------------ Normalizer
\* The inner loop of Index.init: iv - x.refs[k][i] over x.refs[k][1:].
diffsOf(ref) == [i \in 1..(Len(ref) - 1) |-> ref[i + 1] - ref[i]]

\* The outer loop of Index.init from reference k on: every reference but
\* the last, those of fewer than two entries skipped.
RECURSIVE sizesFrom(_, _)
sizesFrom(rs, k) ==
  IF k > Len(rs) - 1 THEN <<>>
  ELSE (IF Len(rs[k]) < 2 THEN <<>> ELSE diffsOf(rs[k])) \o sizesFrom(rs, k + 1)

\* The scan of Index.init past the zeros, from 1-based position i.
RECURSIVE skipZeros(_, _)
skipZeros(sizes, i) ==
  IF i <= Len(sizes) /\ sizes[i] = 0 THEN skipZeros(sizes, i + 1) ELSE i

\* Index.init: the median tile size, or the run-time panic of indexing an
\* empty sizes.
initIndex(rs) ==
  LET sizes == sortAsc(sizesFrom(rs, 1))
  IN IF Len(sizes) = 0 THEN [panic |-> TRUE, median |-> 0]
     ELSE IF sizes[(Len(sizes) \div 2) + 1] # 0
     THEN [panic |-> FALSE, median |-> sizes[(Len(sizes) \div 2) + 1]]
     ELSE LET i == skipZeros(sizes, (Len(sizes) \div 2) + 1)
              rest == SubSeq(sizes, i, Len(sizes))
          IN IF Len(rest) = 0 THEN [panic |-> TRUE, median |-> 0]
             ELSE [panic |-> FALSE, median |-> rest[(Len(rest) \div 2) + 1]]

\* The depths NormalizedDepth returns for ref with median m, in hundredths,
\* clamped at MaxCN; si, ei are the 0-based tile indexes.
depthsOf(ref, m, si, ei) ==
  [i \in 1..(ei - si) |->
     LET d == (100 * (ref[si + i + 1] - ref[si + i])) \div m
     IN IF d > 100 * MaxCN THEN 100 * MaxCN ELSE d]

\* One sample's index, as Main builds it: &Index{Index: idx}.
NormInit ==
  /\ xrefs \in UNION {[1..n -> TileVecs] : n \in 1..MaxRefs}
  /\ medianSizePerTile = 0
  /\ ndepths = <<>>
  /\ npc = "new"

\* x.NormalizedDepth(refID, start, end), with the x.init() of its first
\* call.
NormalizedDepth ==
  /\ npc # "panic"
  /\ \E refID \in 1..Len(xrefs), start \in {0, TileWidth},
        end \in {n * TileWidth : n \in 0..(MaxTiles + 1)} :
       LET r == IF medianSizePerTile = 0 THEN initIndex(xrefs)
                ELSE [panic |-> FALSE, median |-> medianSizePerTile]
           ref == xrefs[refID]
           si == start \div TileWidth
           ei0 == end \div TileWidth
           ei == IF end = 0 \/ ei0 >= Len(ref) THEN Len(ref) - 1 ELSE ei0
       IN IF r.panic
          THEN /\ npc' = "panic"
               /\ UNCHANGED <<medianSizePerTile, ndepths>>
          ELSE /\ npc' = "ok"
               /\ medianSizePerTile' = r.median
               /\ ndepths' = IF ei <= si THEN <<>>
                             ELSE depthsOf(ref, r.median, si, ei)
  /\ UNCHANGED xrefs
  /\ UNCHANGED <<runVars, wiVars>>

RunIdle ==
  /\ build = "wrap"
  /\ refs = <<>>
  /\ ir = 1
  /\ pc = "idle"
  /\ depths = <<>>
  /\ longest = 0
  /\ longesti = 1
  /\ counts = <<>>
  /\ sexes = <<>>
  /\ pca8 = <<>>
  /\ offs = <<>>
  /\ bed = <<>>
  /\ roc = <<>>
  /\ seen = <<>>
  /\ pcs = 0
  /\ pcaPlots = 0
  /\ warnings = <<>>
  /\ pedHdr = <<>>
  /\ ped = <<>>

InitNorm == RunIdle /\ NormInit

NextNorm == NormalizedDepth

SpecNorm == InitNorm /\ [][NextNorm]_vars

\* ------------------------------------------------------------ properties
\* What the properties below read off the history, computed from the
\* recorded depth vectors alone.
lenMax(ds) ==
  CHOOSE n \in {Len(ds[k]) : k \in DOMAIN ds} : \A k \in DOMAIN ds : Len(ds[k]) <= n

\* The references whose sex-or-matrix step has run.
matrixDone == IF pc = "sex" THEN Len(seen) - 1 ELSE Len(seen)

\* The references run has finished with.
refsDone == ir - 1

\* Observed tiles of sample k over the first n references, sex ones left out.
RECURSIVE observedTiles(_, _)
observedTiles(k, n) ==
  IF n = 0 THEN 0
  ELSE observedTiles(k, n - 1)
       + (IF isSex(seen[n].chrom) THEN 0 ELSE Len(seen[n].depths[k]))

\* Padded tiles of sample k over the first n references, sex ones left out.
RECURSIVE paddedTiles(_, _)
paddedTiles(k, n) ==
  IF n = 0 THEN 0
  ELSE paddedTiles(k, n - 1)
       + (IF isSex(seen[n].chrom) THEN 0
          ELSE lenMax(seen[n].depths) - Len(seen[n].depths[k]))

\* The sum of the longest depth length over the first n references, sex
\* ones left out.
RECURSIVE sumLongest(_)
sumLongest(n) ==
  IF n = 0 THEN 0
  ELSE sumLongest(n - 1)
       + (IF isSex(seen[n].chrom) THEN 0 ELSE lenMax(seen[n].depths))

RECURSIVE sumSeq(_, _)
sumSeq(q, i) == IF i > Len(q) THEN 0 ELSE q[i] + sumSeq(q, i + 1)

\* C1: after any sequence of count calls with n >= len(depths) on counters
\* that start at zero, every counter has hi + low <= out, in + out equal to
\* the tiles considered (observed plus padded), and low >= the padded tiles.
C1_BinCounter ==
  \A k \in DOMAIN offs :
    /\ offs[k].hi + offs[k].low <= offs[k].out
    /\ offs[k].in + offs[k].out
         = observedTiles(k, matrixDone) + paddedTiles(k, matrixDone)
    /\ offs[k].low >= paddedTiles(k, matrixDone)

\* C1 witness: two count calls have run on a counter, which has seen a
\* padded tail, a high tile, a low one and one in range.
C1_Witness ==
  \E k \in DOMAIN offs :
    /\ matrixDone >= 2
    /\ ~isSex(seen[1].chrom) /\ ~isSex(seen[2].chrom)
    /\ paddedTiles(k, matrixDone) > 0
    /\ offs[k].hi > 0 /\ offs[k].in > 0
    /\ offs[k].low > paddedTiles(k, matrixDone)

\* C2: after each reference, all matrix rows have the same length, the sum
\* over the non-sex references so far of the longest depth length; sex
\* references add nothing.
C2_RowLength ==
  \A k \in DOMAIN pca8 : Len(pca8[k]) = sumLongest(matrixDone)

\* C2 witness: a non-sex reference, a sex reference with depths, and a second
\* non-sex reference have been processed, the samples' lengths differing on
\* both non-sex ones.
C2_Witness ==
  /\ matrixDone = 3 /\ pc = "emit"
  /\ ~isSex(seen[1].chrom) /\ isSex(seen[2].chrom) /\ ~isSex(seen[3].chrom)
  /\ lenMax(seen[2].depths) > 0
  /\ Len(seen[1].depths[1]) < Len(seen[1].depths[2])
  /\ Len(seen[3].depths[1]) > Len(seen[3].depths[2])
  /\ Len(seen[3].depths[2]) > 0

\* C3: computing the median tile size ends either with InsufficientIndex,
\* exactly when fewer than three non-zero differences exist over all
\* references but the last, or with a strictly positive median; never in
\* another failure, never with a median <= 0.
C3_MedianOrInsufficient ==
  npc # "new" =>
    IF Len(nonZero(sizesFrom(xrefs, 1))) < 3
    THEN npc = "InsufficientIndex"
    ELSE npc = "ok" /\ medianSizePerTile > 0

\* C4: fewer than three principal components is a warning only: no
\* projection, a ped file without the PC columns, and the rest of the
\* summary step completes without a crash.
C4_UnderRankIsWarning ==
  (\E i \in DOMAIN warnings : warnings[i] = "not plotting") =>
    /\ pcs = 0
    /\ pc # "panic"
    /\ pc \in {"charts", "done"} =>
         /\ pedHdr.pcCols = 0
         /\ Len(ped) = Len(names)
         /\ \A i \in DOMAIN ped : ped[i].complete /\ ped[i].pcCols = 0

\* C5: every ROC vector on the roc stream starts at 1, never increases
\* and stays within [0, 1], also for a sample with no depth on a reference
\* where another sample has one.
C5_RocVectors ==
  \A i \in DOMAIN roc :
    roc[i].kind = "row" =>
      \A k \in DOMAIN names :
        /\ ~roc[i].vals[k].nan
        /\ ~roc[i].vals[k].inf
        /\ roc[i].vals[k].v >= 0 /\ roc[i].vals[k].v <= 100
        /\ roc[i].slot = 0 => roc[i].vals[k].v = 100
        /\ roc[i].slot > 0 => roc[i].vals[k].v <= roc[i - 1].vals[k].v

\* The roc stream holds exactly one block, a header and slots rows in slot
\* order, per name of chroms, in that order.
blocksAre(chroms) ==
  /\ Len(roc) = (slots + 1) * Len(chroms)
  /\ \A b \in DOMAIN chroms :
       LET base == (slots + 1) * (b - 1)
       IN /\ roc[base + 1].kind = "header"
          /\ \A j \in 1..slots :
               /\ roc[base + 1 + j].kind = "row"
               /\ roc[base + 1 + j].chrom = chroms[b]
               /\ roc[base + 1 + j].slot = j - 1

\* The names of the first n references on which some sample has a depth.
RECURSIVE coveredChroms(_)
coveredChroms(n) ==
  IF n = 0 THEN <<>>
  ELSE coveredChroms(n - 1)
       \o (IF lenMax(seen[n].depths) > 0 THEN <<seen[n].chrom>> ELSE <<>>)

\* C6 as stated: one block, a header and 70 rows in slot order, for every
\* reference visited, in reference order, also when no sample has a depth
\* on it.
C6_BlockPerReference == blocksAre(SubSeq(refs, 1, refsDone))

\* C6 amended: one block, a header and 70 rows in slot order, for every
\* visited reference on which some sample has a depth, in reference order,
\* and none for a reference on which every depth vector is empty.
C6_BlockPerCoveredReference == blocksAre(coveredChroms(refsDone))

\* C6 witness: a reference without any depth was visited before one with
\* depths, and only the latter has a block.
C6_Witness ==
  /\ refsDone >= 2
  /\ lenMax(seen[1].depths) = 0
  /\ lenMax(seen[2].depths) > 0
  /\ Len(roc) = slots + 1
  /\ roc[2].chrom = seen[2].chrom

\* round(255 * d / MaxCN) saturated to [0, 255], d in hundredths.
round255(d) == Min(255, (255 * d + 50 * MaxCN) \div (100 * MaxCN))

\* C7: every cell appended for an observed depth d is
\* round(255 * d / MaxCN) saturated to [0, 255].
C7_Quantized ==
  (pc = "emit" /\ ~isSex(refs[ir])) =>
    \A k \in DOMAIN pca8 :
      \A i \in 1..Len(depths[k]) :
        pca8[k][Len(pca8[k]) - longest + i] = round255(depths[k][i])

\* v is ploidy times the element at index floor(n / 2) of the n non-zero
\* entries of d in ascending order, or the sentinel when there is none.
isCN(v, d) ==
  LET nz == {p \in DOMAIN d : d[p] # 0}
      n == Cardinality(nz)
  IN IF n = 0 THEN v = -100
     ELSE \E p \in nz :
            /\ v = Ploidy * d[p]
            /\ Cardinality({q \in nz : d[q] < d[p]}) <= n \div 2
            /\ Cardinality({q \in nz : d[q] <= d[p]}) > n \div 2

\* C8: GetCN gives one value per sample in sample order, ploidy times the
\* upper median of the sample's non-zero depths or -1 when it has none, and
\* leaves the depth vectors as they were.
C8_GetCN ==
  /\ \A j \in DOMAIN seen :
       seen[j].chrom \in DOMAIN sexes =>
         /\ Len(sexes[seen[j].chrom]) = Len(names)
         /\ \A k \in DOMAIN names :
              isCN(sexes[seen[j].chrom][k], seen[j].depths[k])
  /\ seen # <<>> => depths = seen[Len(seen)].depths

\* C8 witness: GetCN has run on a reference where one sample has only a
\* zero depth and another three non-zero depths out of order.
C8_Witness ==
  /\ pc = "emit" /\ refs[ir] \in DOMAIN sexes
  /\ depths[1] = <<0>> /\ sexes[refs[ir]][1] = -100
  /\ Len(nonZero(depths[2])) = 3 /\ depths[2][1] < depths[2][2]
  /\ depths[2][3] < depths[2][1]
  /\ sexes[refs[ir]][2] = Ploidy * depths[2][1]

\* round(cn) for a CN in hundredths, halves away from zero.
roundCN(cn) ==
  IF cn >= 0 THEN (cn + 50) \div 100 ELSE -((50 - cn) \div 100)

\* C9: the sex field of every ped row is round(CN of the first sex
\* chromosome), the sentinel -1 included.
C9_SexIsRoundedCN ==
  \A i \in DOMAIN ped : ped[i].sex = roundCN(ped[i].cn[1])

\* C10: after the histogram step of a reference every sample's histogram
\* has 70 slots and sums to the length of the sample's depth vector on that
\* reference.
C10_HistogramSum ==
  seen # <<>> =>
    \A k \in DOMAIN counts :
      /\ Len(counts[k]) = slots
      /\ \A i \in 1..slots : counts[k][i] >= 0
      /\ sumSeq(counts[k], 1) = Len(depths[k])

\* C10 witness: the histogram step of a second reference has run for a
\* sample that had more depths on the first.
C10_Witness ==
  /\ pc = "sex" /\ Len(seen) = 2
  /\ Len(depths[2]) > 0
  /\ Len(seen[1].depths[2]) > Len(depths[2])
  /\ sumSeq(counts[2], 1) = Len(depths[2])

====
